---- MODULE Spec2Model ----
(***************************************************************************)
(* Account pool of the antigravity-multi provider: the AccountManager      *)
(* store (account-manager.ts) and the AccountRotator (rotator.ts):         *)
(* selection strategies, circuit breaker and rate-limit cooldowns.         *)
(*                                                                         *)
(* Spec, SpecReport, SpecSelect, SpecRotate, SpecHandle, SpecRetry         *)
(*           every call runs to completion before the next one starts.     *)
(* SpecConc  calls overlap; a call yields at each of its awaits.           *)
(***************************************************************************)
EXTENDS Integers, Sequences, FiniteSets, TLC

(* ---------------------------------------------------------------- bounds *)
MaxTicks == 1
MaxRequests == 1
MaxFailures == 4
MaxPicks == 4
StartNow == 1000
NumProcs == 2
MaxCalls == 2
MaxHandled == 3

(* ------------------------------------------------------ program constants *)
CIRCUIT_BREAKER_THRESHOLD == 3
RATE_LIMIT_COOLDOWN_MS == 60 * 1000
MAX_401_RETRIES == 3
\* `cooldown` of the disable command: 24 hours
DISABLE_COOLDOWN_MS == 24 * 60 * 60 * 1000
\* `longCooldown` of handle403: 1 hour
LONG_COOLDOWN_MS == 60 * 60 * 1000

(* `undefined` of an optional numeric field *)
Undefined == -1
(* `null` returned by getNextAccount *)
Null == "null"

Emails == {"a", "b"}
\* the emails of the three-account rotation (SpecRotate)
RotateEmails == Emails \cup {"c"}
Strategies == {"round-robin", "priority", "least-used", "failover"}
(* priorities a caller hands to addAccount; Undefined = field left out *)
Priorities == {Undefined, 0, 5}
(* cooldownMs arguments handed to reportFailure *)
Cooldowns == {RATE_LIMIT_COOLDOWN_MS, 2 * RATE_LIMIT_COOLDOWN_MS}
(* status codes handed to the interceptor: both ends of 2xx and the rate
   limit (SpecHandle); 401, 403, both ends of 5xx and the codes next to 2xx and 5xx
   that have no branch of their own (SpecRetry) *)
LimitStatuses == {200, 299, 429}
ErrorStatuses == {300, 401, 403, 500, 599, 600}
(* retryAfterMs arguments handed to the interceptor; Undefined = left out *)
RetryAfters == {Undefined, 0, RATE_LIMIT_COOLDOWN_MS \div 2}
TickMs == RATE_LIMIT_COOLDOWN_MS
MaxNow == StartNow + MaxTicks * TickMs
\* interval ticks of the auto-refresh task that are followed
MaxSweeps == 2
TOKEN_REFRESH_INTERVAL_MS == 30 * 60 * 1000
TOKEN_EXPIRY_THRESHOLD_MS == 5 * 60 * 1000
\* the cooldown the `switch` command reports for the account it leaves
SWITCH_COOLDOWN_MS == 5000
\* the priority the `switch <email>` command gives the account
SWITCH_PRIORITY == 999
\* no interval is running (refreshTimer is null)
NoTimer == 0
\* the credentials a login stores: the access token and the instant it
\* expires, just outside the refresh window of a sweep at StartNow
LoginToken == 0
LoginExpiresAt == StartNow + TOKEN_EXPIRY_THRESHOLD_MS + TickMs \div 2
\* the credentials a refresh at time t returns: a token that lasts two
\* intervals of the auto-refresh task
RefreshedToken(t) == t
RefreshedExpiresAt(t) == t + 2 * TOKEN_REFRESH_INTERVAL_MS

VARIABLES
    accounts,   \* AccountManager.accounts: the Map's values in insertion order
    strategy,   \* AccountRotator.strategy
    currentRoundRobinIndex, \* AccountRotator.currentRoundRobinIndex
    now,        \* Date.now()
    last,       \* the last completed call: its arguments and what it returned
    streak,     \* per email: consecutive reportFailure(email, false) calls
                \* since the account had failureCount 0 and was not limited
    picks,      \* emails returned by the selections made since the candidate
                \* list or the strategy last changed
    preferred,  \* the account the latest failover selection returned, Null
                \* once it has been unavailable or the strategy was set
    refreshTimer, \* the interval handle of the auto-refresh task, Null before
                \* startAutoTokenRefresh has run
    loaded,     \* AccountManager.loaded
    file,       \* the accounts file at accountsPath, <<>> when there is none
    timers,     \* the intervals setInterval has created and nothing has cleared
    waited,     \* SpecStarve: per email, the selections that returned another
                \* account since the account was last returned or disabled
    procs,      \* SpecConc: per caller, the call in flight and where it stands
    completed   \* SpecConc: per email, the report calls that have returned

vars == <<accounts, strategy, currentRoundRobinIndex, now, last, streak, picks,
          preferred, refreshTimer, loaded, file, procs, completed, timers, waited>>

(* ------------------------------------------------------------ JavaScript *)
\* truthiness of an optional number: undefined and 0 are falsy
Truthy(x) == x # Undefined /\ x # 0
\* x || d
OrElse(x, d) == IF Truthy(x) THEN x ELSE d
\* x ?? d
Nullish(x, d) == IF x = Undefined THEN d ELSE x

\* { ...account, ...updates }
Merge(account, updates) ==
    [f \in DOMAIN account |-> IF f \in DOMAIN updates THEN updates[f] ELSE account[f]]

(* ------------------------------------------------------- AccountManager *)
IndexOf(accts, email) ==
    IF \E i \in 1..Len(accts) : accts[i].email = email
    THEN CHOOSE i \in 1..Len(accts) : accts[i].email = email
    ELSE 0

HasAccount(accts, email) == IndexOf(accts, email) # 0

\* AccountManager.getAccount (the caller has checked the result is defined)
GetAccount(accts, email) == accts[IndexOf(accts, email)]

\* AccountManager.updateAccount: merge into the record, nothing when absent
UpdateAccount(accts, email, updates) ==
    IF HasAccount(accts, email)
    THEN [accts EXCEPT ![IndexOf(accts, email)] = Merge(@, updates)]
    ELSE accts

\* the record addAccount stores for a login of `email`
NewAccount(email, priority) ==
    [email |-> email,
     priority |-> Nullish(priority, 1),
     lastUsed |-> Undefined,
     requestCount |-> Nullish(Undefined, 0),
     failureCount |-> Nullish(Undefined, 0),
     isRateLimited |-> FALSE,
     rateLimitedUntil |-> Undefined,
     accessToken |-> LoginToken,
     expiresAt |-> LoginExpiresAt,
     lastRefreshed |-> Undefined]

\* Map.set: an existing key keeps its position, a new key goes last
MapSet(accts, account) ==
    IF HasAccount(accts, account.email)
    THEN [accts EXCEPT ![IndexOf(accts, account.email)] = account]
    ELSE Append(accts, account)

\* Map.delete
MapDelete(accts, email) ==
    SelectSeq(accts, LAMBDA a : a.email # email)

(* -------------------------------------------------------- AccountRotator *)
\* accounts.filter(a => !a.isRateLimited)
AvailableUnfiltered(accts) == accts
Available(accts) == SelectSeq(accts, LAMBDA a : ~a.isRateLimited)

EmailsOf(accts) == [i \in 1..Len(accts) |-> accts[i].email]

\* the test of clearExpiredRateLimits
ExpiredStrictlyBefore(a, t) ==
    a.isRateLimited /\ Truthy(a.rateLimitedUntil) /\ a.rateLimitedUntil < t
Expired(a, t) == a.isRateLimited /\ Truthy(a.rateLimitedUntil) /\ a.rateLimitedUntil <= t

ClearUpdates == [isRateLimited |-> FALSE, rateLimitedUntil |-> Undefined, failureCount |-> 0]

\* clearExpiredRateLimits: the store after the loop
ClearEveryRateLimit(accts, t) ==
    [i \in 1..Len(accts) |->
        IF accts[i].isRateLimited THEN Merge(accts[i], ClearUpdates) ELSE accts[i]]
ClearExpiredRateLimits(accts, t) ==
    [i \in 1..Len(accts) |->
        IF Expired(accts[i], t) THEN Merge(accts[i], ClearUpdates) ELSE accts[i]]

\* the comparators handed to sort by selectPriority and selectLeastUsed
Compare(by, a, b) ==
    IF by = "priority"
    THEN OrElse(b.priority, 1) - OrElse(a.priority, 1)
    ELSE OrElse(a.requestCount, 0) - OrElse(b.requestCount, 0)

\* Array.prototype.sort is stable: x goes behind every element it does not
\* compare less than
RECURSIVE InsertSorted(_, _, _)
InsertBeforeEqual(sorted, x, by) ==
    IF sorted = <<>> THEN <<x>>
    ELSE IF Compare(by, x, Head(sorted)) <= 0
         THEN <<x>> \o sorted
         ELSE <<Head(sorted)>> \o InsertSorted(Tail(sorted), x, by)
InsertSorted(sorted, x, by) ==
    IF sorted = <<>> THEN <<x>>
    ELSE IF Compare(by, x, Head(sorted)) < 0
         THEN <<x>> \o sorted
         ELSE <<Head(sorted)>> \o InsertSorted(Tail(sorted), x, by)

RECURSIVE StableSort(_, _)
StableSort(s, by) ==
    IF s = <<>> THEN <<>>
    ELSE InsertSorted(StableSort(SubSeq(s, 1, Len(s) - 1), by), s[Len(s)], by)

\* selectRoundRobin: <<the index used, the index stored>>
RoundRobinIndexNotAdvanced(idx, n) ==
    LET used == IF idx >= n THEN 0 ELSE idx
    IN  <<used, used>>
RoundRobinIndex(idx, n) ==
    LET used == IF idx >= n THEN 0 ELSE idx
    IN  <<used, (used + 1) % n>>

selectRoundRobinFirst(available, idx) == available[1]
selectRoundRobin(available, idx) == available[RoundRobinIndex(idx, Len(available))[1] + 1]
selectPriority(available) == StableSort(available, "priority")[1]
selectLeastUsedUnsorted(available) == available[1]
selectLeastUsed(available) == StableSort(available, "least-used")[1]
selectFailoverLast(available) == available[Len(available)]
selectFailover(available) == available[1]

\* the switch of getNextAccount over a non-empty candidate list
SelectByStrategy(s, available, idx) ==
    CASE s = "round-robin" -> selectRoundRobin(available, idx)
      [] s = "priority" -> selectPriority(available)
      [] s = "least-used" -> selectLeastUsed(available)
      [] s = "failover" -> selectFailover(available)
      [] OTHER -> selectRoundRobin(available, idx)

\* what getNextAccount returns for the store it reads after the clearing
NextAccountNeedsTwo(accts, s, idx) ==
    IF Len(Available(accts)) <= 1 THEN Null
    ELSE SelectByStrategy(s, Available(accts), idx).email
NextAccount(accts, s, idx) ==
    IF Len(Available(accts)) = 0 THEN Null
    ELSE SelectByStrategy(s, Available(accts), idx).email

\* the count clearExpiredRateLimits returns
ClearedCount(accts, t) == Cardinality({i \in 1..Len(accts) : Expired(accts[i], t)})

\* the partial update of reportSuccess, from the record it read
SuccessUpdatesKeepLimit(account, t) ==
    [requestCount |-> OrElse(account.requestCount, 0) + 1,
     failureCount |-> 0,
     lastUsed |-> t]
SuccessUpdates(account, t) ==
    [requestCount |-> OrElse(account.requestCount, 0) + 1,
     failureCount |-> 0,
     lastUsed |-> t,
     isRateLimited |-> FALSE,
     rateLimitedUntil |-> Undefined]

NewFailureCount(account) == OrElse(account.failureCount, 0) + 1
CircuitBrokenAboveThreshold(account) == NewFailureCount(account) > CIRCUIT_BREAKER_THRESHOLD
CircuitBroken(account) == NewFailureCount(account) >= CIRCUIT_BREAKER_THRESHOLD

\* what reportFailure returns for the record it read
ReportFailureResultOrRateLimit(account, isRateLimit) == isRateLimit \/ CircuitBroken(account)
ReportFailureResult(account, isRateLimit) == CircuitBroken(account)

\* the partial update of reportFailure, from the record it read
FailureUpdatesResetOnTrip(account, isRateLimit, cooldownMs, t) ==
    IF isRateLimit \/ CircuitBroken(account)
    THEN [failureCount |-> 0, lastUsed |-> t,
          isRateLimited |-> TRUE, rateLimitedUntil |-> t + cooldownMs]
    ELSE [failureCount |-> NewFailureCount(account), lastUsed |-> t]
FailureUpdates(account, isRateLimit, cooldownMs, t) ==
    IF isRateLimit \/ CircuitBroken(account)
    THEN [failureCount |-> NewFailureCount(account), lastUsed |-> t,
          isRateLimited |-> TRUE, rateLimitedUntil |-> t + cooldownMs]
    ELSE [failureCount |-> NewFailureCount(account), lastUsed |-> t]

\* reportSuccess: the store after the call
reportSuccess(accts, email, t) ==
    IF HasAccount(accts, email)
    THEN UpdateAccount(accts, email, SuccessUpdates(GetAccount(accts, email), t))
    ELSE accts

\* reportFailure: the store after the call
reportFailure(accts, email, isRateLimit, cooldownMs, t) ==
    IF HasAccount(accts, email)
    THEN UpdateAccount(accts, email,
                       FailureUpdates(GetAccount(accts, email), isRateLimit, cooldownMs, t))
    ELSE accts

\* getNextAccount: the store and the cursor after the call, the email returned
getNextAccount(accts, s, idx, t) ==
    LET cleared == ClearExpiredRateLimits(accts, t)
        available == Available(cleared)
    IN  [accounts |-> cleared,
         index |-> IF available # <<>> /\ s = "round-robin"
                   THEN RoundRobinIndex(idx, Len(available))[2]
                   ELSE idx,
         account |-> NextAccount(cleared, s, idx),
         selected |-> TRUE]

\* the filter of getAccountsNeedingRefresh
NeedsRefreshAlsoWhenLimited(a, t, thresholdMs) ==
    Truthy(a.expiresAt) /\ (a.expiresAt - t) < thresholdMs
NeedsRefresh(a, t, thresholdMs) ==
    ~a.isRateLimited /\ Truthy(a.expiresAt) /\ (a.expiresAt - t) < thresholdMs

getAccountsNeedingRefresh(accts, t, thresholdMs) ==
    SelectSeq(accts, LAMBDA a : NeedsRefresh(a, t, thresholdMs))

\* updateAccountTokens: the store after the call
updateAccountTokens(accts, email, accessToken, expiresAt, t) ==
    UpdateAccount(accts, email, [accessToken |-> accessToken, expiresAt |-> expiresAt,
                                 lastRefreshed |-> t, failureCount |-> 0])

\* the loop of refreshAllTokens over the accounts `todo`: the store after it.
\* `failing` holds the emails whose refreshAccessToken call throws
RECURSIVE refreshEach(_, _, _, _)
refreshEach(accts, todo, failing, t) ==
    IF todo = <<>> THEN accts
    ELSE refreshEach(
             IF Head(todo).email \in failing
             THEN reportFailure(accts, Head(todo).email, FALSE, RATE_LIMIT_COOLDOWN_MS, t)
             ELSE updateAccountTokens(accts, Head(todo).email, RefreshedToken(t),
                                      RefreshedExpiresAt(t), t),
             Tail(todo), failing, t)

\* refreshAllTokens of startAutoTokenRefresh: the store after one sweep
refreshAllTokensAbortOnFailure(accts, failing, t) ==
    LET todo == getAccountsNeedingRefresh(accts, t, TOKEN_EXPIRY_THRESHOLD_MS)
        failed == {i \in 1..Len(todo) : todo[i].email \in failing}
        stop == IF failed = {} THEN Len(todo)
                ELSE CHOOSE i \in failed : \A k \in failed : i <= k
    IN  refreshEach(accts, SubSeq(todo, 1, stop), failing, t)
refreshAllTokens(accts, failing, t) ==
    refreshEach(accts, getAccountsNeedingRefresh(accts, t, TOKEN_EXPIRY_THRESHOLD_MS),
                failing, t)

\* the updates of the `disable <email>` command
DisableUpdatesIndefinite(t) ==
    [isRateLimited |-> TRUE, rateLimitedUntil |-> Undefined]
DisableUpdates(t) ==
    [isRateLimited |-> TRUE, rateLimitedUntil |-> t + DISABLE_COOLDOWN_MS]

\* the updates of the `enable <email>` command
EnableUpdatesKeepCount ==
    [isRateLimited |-> FALSE, rateLimitedUntil |-> Undefined]
EnableUpdates ==
    [isRateLimited |-> FALSE, rateLimitedUntil |-> Undefined, failureCount |-> 0]

\* the updates of the `switch <email>` command
SwitchUpdatesResetCount ==
    [isRateLimited |-> FALSE, rateLimitedUntil |-> Undefined, failureCount |-> 0,
     priority |-> SWITCH_PRIORITY, requestCount |-> 0]
SwitchUpdates ==
    [isRateLimited |-> FALSE, rateLimitedUntil |-> Undefined, failureCount |-> 0,
     priority |-> SWITCH_PRIORITY]

\* the `switch` command without an email: the selection it reports and the
\* store and the cursor behind it
switchNext(accts, s, idx, t) ==
    LET current == getNextAccount(accts, s, idx, t)
    IN  IF current.account = Null THEN current
        ELSE LET next == getNextAccount(
                             reportFailure(current.accounts, current.account, TRUE,
                                           SWITCH_COOLDOWN_MS, t),
                             s, current.index, t)
             IN  IF next.account # Null THEN next
                 ELSE [next EXCEPT !.accounts =
                          UpdateAccount(next.accounts, current.account,
                                        [isRateLimited |-> FALSE])]

\* a handler result that made no selection
NoSelection(accts, idx) ==
    [accounts |-> accts, index |-> idx, account |-> Null, selected |-> FALSE]

\* handle429: the selection it returns
handle429WithoutReport(accts, s, idx, currentEmail, retryAfterMs, t) ==
    getNextAccount(accts, s, idx, t)
handle429(accts, s, idx, currentEmail, retryAfterMs, t) ==
    LET cooldown == OrElse(retryAfterMs, RATE_LIMIT_COOLDOWN_MS)
    IN  getNextAccount(reportFailure(accts, currentEmail, TRUE, cooldown, t), s, idx, t)

\* the retry test of handle401 on the incremented failureCount
ShouldRetry401Inclusive(failureCount) == failureCount <= MAX_401_RETRIES
ShouldRetry401(failureCount) == failureCount < MAX_401_RETRIES

\* handle401: { shouldRetry, newAccount } and the store behind them
handle401(accts, s, idx, currentEmail, t) ==
    IF ~HasAccount(accts, currentEmail)
    THEN [shouldRetry |-> FALSE, next |-> getNextAccount(accts, s, idx, t)]
    ELSE LET failureCount == OrElse(GetAccount(accts, currentEmail).failureCount, 0) + 1
             updated == UpdateAccount(accts, currentEmail,
                                      [failureCount |-> failureCount, lastUsed |-> t])
         IN  IF ShouldRetry401(failureCount)
             THEN [shouldRetry |-> TRUE, next |-> NoSelection(updated, idx)]
             ELSE [shouldRetry |-> FALSE,
                   next |-> getNextAccount(
                               reportFailure(updated, currentEmail, FALSE,
                                             RATE_LIMIT_COOLDOWN_MS, t), s, idx, t)]

\* handle403: the selection it returns
handle403DefaultCooldown(accts, s, idx, currentEmail, t) ==
    getNextAccount(UpdateAccount(accts, currentEmail,
                                 [isRateLimited |-> TRUE,
                                  rateLimitedUntil |-> t + RATE_LIMIT_COOLDOWN_MS,
                                  failureCount |-> CIRCUIT_BREAKER_THRESHOLD]),
                   s, idx, t)
handle403(accts, s, idx, currentEmail, t) ==
    getNextAccount(UpdateAccount(accts, currentEmail,
                                 [isRateLimited |-> TRUE,
                                  rateLimitedUntil |-> t + LONG_COOLDOWN_MS,
                                  failureCount |-> CIRCUIT_BREAKER_THRESHOLD]),
                   s, idx, t)

\* the retry test of handle5xx on the incremented failureCount
ShouldRetry5xxInclusive(failureCount) == failureCount <= CIRCUIT_BREAKER_THRESHOLD
ShouldRetry5xx(failureCount) == failureCount < CIRCUIT_BREAKER_THRESHOLD

\* handle5xx: { shouldRetry, delay } and the store behind them
handle5xx(accts, currentEmail, t) ==
    LET failureCount ==
            (IF HasAccount(accts, currentEmail)
             THEN OrElse(GetAccount(accts, currentEmail).failureCount, 0)
             ELSE 0) + 1
    IN  IF ShouldRetry5xx(failureCount)
        THEN [shouldRetry |-> TRUE, delay |-> (2 ^ (failureCount - 1)) * 1000,
              accounts |-> UpdateAccount(accts, currentEmail, [failureCount |-> failureCount])]
        ELSE [shouldRetry |-> FALSE, delay |-> 0,
              accounts |-> reportFailure(accts, currentEmail, FALSE,
                                         RATE_LIMIT_COOLDOWN_MS, t)]

\* what handleResponse returns, and the store and cursor behind it
Response(action, next, delay) ==
    [action |-> action, newCredentials |-> next.account, delay |-> delay,
     accounts |-> next.accounts, index |-> next.index, selected |-> next.selected]

SwitchOrFail(next) ==
    Response(IF next.account # Null THEN "switch" ELSE "fail", next, Undefined)

\* the final branch of handleResponse, for a status no test above matched
UnclassifiedNotReported(accts, idx, currentEmail, t) ==
    Response("continue", NoSelection(accts, idx), Undefined)
Unclassified(accts, idx, currentEmail, t) ==
    Response("continue",
             NoSelection(reportFailure(accts, currentEmail, FALSE,
                                       RATE_LIMIT_COOLDOWN_MS, t), idx),
             Undefined)

\* createResponseInterceptor(...).handleResponse
handleResponse(accts, s, idx, status, currentEmail, retryAfterMs, t) ==
    IF status >= 200 /\ status < 300
    THEN Response("continue", NoSelection(reportSuccess(accts, currentEmail, t), idx), Undefined)
    ELSE IF status = 429
    THEN SwitchOrFail(handle429(accts, s, idx, currentEmail, retryAfterMs, t))
    ELSE IF status = 401
    THEN LET result == handle401(accts, s, idx, currentEmail, t)
         IN  IF result.shouldRetry
             THEN Response("retry", result.next, 1000)
             ELSE SwitchOrFail(result.next)
    ELSE IF status = 403
    THEN SwitchOrFail(handle403(accts, s, idx, currentEmail, t))
    ELSE IF status >= 500 /\ status < 600
    THEN LET result == handle5xx(accts, currentEmail, t)
         IN  IF result.shouldRetry
             THEN Response("retry", NoSelection(result.accounts, idx), result.delay)
             ELSE SwitchOrFail(getNextAccount(result.accounts, s, idx, t))
    ELSE Unclassified(accts, idx, currentEmail, t)

(* --------------------------------------------------- observation helpers *)
NoCall == [op |-> "none", email |-> Null, isRateLimit |-> FALSE, cooldownMs |-> 0,
           at |-> 0, account |-> Null, cleared |-> 0, circuitBroken |-> FALSE,
           previous |-> Null, status |-> 0, retryAfterMs |-> Undefined,
           action |-> "none", delay |-> Undefined, run |-> 0, before |-> <<>>,
           failing |-> {}, outcomes |-> 0]

Fresh(a) == a.failureCount = 0 /\ ~a.isRateLimited

\* the streak of `email` after a step that took the store from old to new
StreakAfter(old, new, email, isPlainFailure) ==
    IF ~HasAccount(new, email) THEN -1
    ELSE IF isPlainFailure
         THEN (IF streak[email] >= 0 /\ streak[email] < CIRCUIT_BREAKER_THRESHOLD
               THEN streak[email] + 1 ELSE -1)
         ELSE IF HasAccount(old, email) /\ GetAccount(old, email) = GetAccount(new, email)
              THEN streak[email]
              ELSE (IF Fresh(GetAccount(new, email)) THEN 0 ELSE -1)

\* the selections recorded after a step that did not select
PicksAfter(new, newStrategy) ==
    IF EmailsOf(Available(new)) = EmailsOf(Available(accounts)) /\ newStrategy = strategy
    THEN picks ELSE <<>>

\* the selections recorded after a step that selected `chosen`
PicksAfterSelection(new, chosen) ==
    LET kept == IF EmailsOf(Available(new)) = EmailsOf(Available(accounts))
                THEN picks ELSE <<>>
    IN  IF chosen = Null \/ strategy # "round-robin" THEN <<>>
        ELSE IF Len(kept) < MaxPicks THEN Append(kept, chosen)
        ELSE Append(Tail(kept), chosen)

\* what a call found in the account it is about, but for lastUsed
Counts(a) ==
    [requestCount |-> a.requestCount, failureCount |-> a.failureCount,
     isRateLimited |-> a.isRateLimited, rateLimitedUntil |-> a.rateLimitedUntil]

\* the branch of handleResponse a status takes: 2xx and 5xx by their first
\* code, 429, 401 and 403 by themselves, 0 for the final branch
Branch(status) ==
    IF status >= 200 /\ status < 300 THEN 200
    ELSE IF status \in {429, 401, 403} THEN status
    ELSE IF status >= 500 /\ status < 600 THEN 500
    ELSE 0

\* the position of a handleResponse call in a run of calls on one account
\* that take one branch, nothing but time passing between them, the first
\* of them finding failureCount 0; 0 when the call is in no such run
RunAfter(status, email) ==
    IF /\ last.op = "handleResponse" /\ last.email = email
       /\ Branch(last.status) = Branch(status)
       /\ last.run \in 1..(CIRCUIT_BREAKER_THRESHOLD - 1)
    THEN last.run + 1
    ELSE IF HasAccount(accounts, email) /\ GetAccount(accounts, email).failureCount = 0
         THEN 1 ELSE 0

\* the failover account after a step that did not select
PreferredAfter(new) ==
    IF preferred # Null /\ HasAccount(new, preferred) /\ ~GetAccount(new, preferred).isRateLimited
    THEN preferred ELSE Null

Procs == 1..NumProcs

\* a caller with no call in flight; `read` and `updates` hold at most one
\* record, `data` the content load() has read from the file
IdleProc == [pc |-> "idle", op |-> "none", email |-> Null, isRateLimit |-> FALSE,
             cooldownMs |-> 0, read |-> <<>>, updates |-> <<>>, data |-> <<>>,
             status |-> 0, outcomes |-> 0]

\* a call that went through load() and, where it wrote, through save(): the
\* Map is loaded and the file holds what the Map holds
Saved == loaded' = TRUE /\ file' = accounts'

(* ------------------------------------------------------------------ Init *)
Init ==
    /\ accounts = <<>>
    /\ strategy = "round-robin"
    /\ currentRoundRobinIndex = 0
    /\ now = StartNow
    /\ last = NoCall
    /\ streak = [e \in RotateEmails |-> -1]
    /\ picks = <<>>
    /\ preferred = Null
    /\ refreshTimer = NoTimer
    /\ timers = 0
    /\ waited = [e \in RotateEmails |-> 0]
    /\ loaded = FALSE
    /\ file = <<>>
    /\ procs = [p \in Procs |-> IdleProc]
    /\ completed = [e \in RotateEmails |-> [success |-> 0, failure |-> 0]]

(* --------------------------------------------------------------- actions *)
\* AccountManager.addAccount
AddAccount(email, priority) ==
    /\ accounts' = MapSet(accounts, NewAccount(email, priority))
    /\ streak' = [streak EXCEPT ![email] = 0]
    /\ picks' = PicksAfter(accounts', strategy)
    /\ preferred' = PreferredAfter(accounts')
    /\ last' = [NoCall EXCEPT !.op = "addAccount"]
    /\ Saved
    /\ UNCHANGED <<strategy, currentRoundRobinIndex, now, procs, completed,
                   refreshTimer, timers, waited>>

\* AccountManager.removeAccount
RemoveAccount(email) ==
    /\ HasAccount(accounts, email)
    /\ accounts' = MapDelete(accounts, email)
    /\ streak' = [streak EXCEPT ![email] = -1]
    /\ picks' = PicksAfter(accounts', strategy)
    /\ preferred' = PreferredAfter(accounts')
    /\ last' = [NoCall EXCEPT !.op = "removeAccount"]
    /\ Saved
    /\ UNCHANGED <<strategy, currentRoundRobinIndex, now, procs, completed,
                   refreshTimer, timers, waited>>

\* AccountRotator.setStrategy
SetStrategy(s) ==
    /\ s # strategy
    /\ strategy' = s
    /\ picks' = <<>>
    /\ preferred' = Null
    /\ last' = [NoCall EXCEPT !.op = "setStrategy"]
    /\ UNCHANGED <<accounts, currentRoundRobinIndex, now, streak, procs, completed,
                   refreshTimer, loaded, file, timers, waited>>

\* AccountRotator.getNextAccount
GetNextAccount ==
    LET cleared == ClearExpiredRateLimits(accounts, now)
        available == Available(cleared)
        chosen == NextAccount(cleared, strategy, currentRoundRobinIndex)
        kept == IF EmailsOf(available) = EmailsOf(Available(accounts)) THEN picks ELSE <<>>
    IN  /\ accounts' = cleared
        /\ currentRoundRobinIndex' =
              IF available # <<>> /\ strategy = "round-robin"
              THEN RoundRobinIndex(currentRoundRobinIndex, Len(available))[2]
              ELSE currentRoundRobinIndex
        /\ streak' = [e \in RotateEmails |-> StreakAfter(accounts, cleared, e, FALSE)]
        /\ picks' = IF chosen = Null \/ strategy # "round-robin" THEN <<>>
                    ELSE IF Len(kept) < MaxPicks THEN Append(kept, chosen)
                    ELSE Append(Tail(kept), chosen)
        /\ preferred' = IF strategy = "failover" THEN chosen ELSE Null
        /\ last' = [NoCall EXCEPT !.op = "getNextAccount", !.account = chosen,
                                  !.cleared = ClearedCount(accounts, now),
                                  !.previous = preferred]
        /\ Saved
        /\ UNCHANGED <<strategy, now, procs, completed,
                       refreshTimer, timers, waited>>

\* AccountRotator.reportSuccess
ReportSuccess(email) ==
    /\ HasAccount(accounts, email) => GetAccount(accounts, email).requestCount < MaxRequests
    /\ accounts' = reportSuccess(accounts, email, now)
    /\ streak' = [streak EXCEPT ![email] = StreakAfter(accounts, accounts', email, FALSE)]
    /\ picks' = PicksAfter(accounts', strategy)
    /\ preferred' = PreferredAfter(accounts')
    /\ last' = [NoCall EXCEPT !.op = "reportSuccess", !.email = email]
    /\ Saved
    /\ UNCHANGED <<strategy, currentRoundRobinIndex, now, procs, completed,
                   refreshTimer, timers, waited>>

\* AccountRotator.reportFailure
ReportFailure(email, isRateLimit, cooldownMs) ==
    /\ HasAccount(accounts, email) => GetAccount(accounts, email).failureCount < MaxFailures
    /\ accounts' = reportFailure(accounts, email, isRateLimit, cooldownMs, now)
    /\ streak' = [streak EXCEPT ![email] =
                     StreakAfter(accounts, accounts', email, ~isRateLimit)]
    /\ picks' = PicksAfter(accounts', strategy)
    /\ preferred' = PreferredAfter(accounts')
    /\ last' = [NoCall EXCEPT !.op = "reportFailure", !.email = email, !.at = now,
                              !.isRateLimit = isRateLimit, !.cooldownMs = cooldownMs,
                              !.circuitBroken =
                                  IF HasAccount(accounts, email)
                                  THEN ReportFailureResult(GetAccount(accounts, email), isRateLimit)
                                  ELSE FALSE]
    /\ Saved
    /\ UNCHANGED <<strategy, currentRoundRobinIndex, now, procs, completed,
                   refreshTimer, timers, waited>>

\* the `disable <email>` command (an unknown email exits before any write)
Disable(email) ==
    /\ HasAccount(accounts, email)
    /\ accounts' = UpdateAccount(accounts, email, DisableUpdates(now))
    /\ streak' = [streak EXCEPT ![email] = StreakAfter(accounts, accounts', email, FALSE)]
    /\ picks' = PicksAfter(accounts', strategy)
    /\ preferred' = PreferredAfter(accounts')
    /\ last' = [NoCall EXCEPT !.op = "disable", !.email = email]
    /\ waited' = [waited EXCEPT ![email] = 0]
    /\ Saved
    /\ UNCHANGED <<strategy, currentRoundRobinIndex, now, procs, completed,
                   refreshTimer, timers>>

\* the `enable <email>` command (an unknown email exits before any write)
Enable(email) ==
    /\ HasAccount(accounts, email)
    /\ accounts' = UpdateAccount(accounts, email, EnableUpdates)
    /\ streak' = [streak EXCEPT ![email] = StreakAfter(accounts, accounts', email, FALSE)]
    /\ picks' = PicksAfter(accounts', strategy)
    /\ preferred' = PreferredAfter(accounts')
    /\ last' = [NoCall EXCEPT !.op = "enable", !.email = email,
                              !.before = <<Counts(GetAccount(accounts, email))>>]
    /\ Saved
    /\ UNCHANGED <<strategy, currentRoundRobinIndex, now, procs, completed,
                   refreshTimer, timers, waited>>

\* the `switch <email>` command (an unknown email exits before any write)
Switch(email) ==
    /\ HasAccount(accounts, email)
    /\ accounts' = UpdateAccount(accounts, email, SwitchUpdates)
    /\ streak' = [streak EXCEPT ![email] = StreakAfter(accounts, accounts', email, FALSE)]
    /\ picks' = PicksAfter(accounts', strategy)
    /\ preferred' = PreferredAfter(accounts')
    /\ last' = [NoCall EXCEPT !.op = "switch", !.email = email]
    /\ Saved
    /\ UNCHANGED <<strategy, currentRoundRobinIndex, now, procs, completed,
                   refreshTimer, timers, waited>>

\* the `switch` command without an email
SwitchNext ==
    \E r \in {switchNext(accounts, strategy, currentRoundRobinIndex, now)} :
        /\ \A i \in 1..Len(accounts) : accounts[i].failureCount < MaxFailures
        /\ accounts' = r.accounts
        /\ currentRoundRobinIndex' = r.index
        /\ streak' = [e \in RotateEmails |-> StreakAfter(accounts, r.accounts, e, FALSE)]
        /\ picks' = PicksAfterSelection(r.accounts, r.account)
        /\ preferred' = IF strategy = "failover" THEN r.account ELSE Null
        /\ last' = [NoCall EXCEPT !.op = "switchNext", !.account = r.account, !.at = now]
        /\ Saved
        /\ UNCHANGED <<strategy, now, procs, completed,
                       refreshTimer, timers, waited>>

\* a login through the plugin: addAccount, then startAutoTokenRefresh unless
\* the interval is already running. startAutoTokenRefresh runs one sweep at
\* once and sets the interval
PluginLogin(email, failing) ==
    LET added == MapSet(accounts, [NewAccount(email, 1) EXCEPT !.lastRefreshed = now])
    IN  /\ refreshTimer # NoTimer => failing = {}
        /\ accounts' = IF refreshTimer = NoTimer
                       THEN refreshAllTokens(added, failing, now)
                       ELSE added
        /\ refreshTimer' = IF refreshTimer = NoTimer
                           THEN now + TOKEN_REFRESH_INTERVAL_MS
                           ELSE refreshTimer
        /\ streak' = [e \in RotateEmails |->
                         IF e = email THEN 0 ELSE StreakAfter(accounts, accounts', e, FALSE)]
        /\ picks' = PicksAfter(accounts', strategy)
        /\ preferred' = PreferredAfter(accounts')
        /\ last' = [NoCall EXCEPT !.op = "login", !.email = email, !.at = now,
                                  !.failing = failing]
        /\ timers' = IF refreshTimer = NoTimer THEN timers + 1 ELSE timers
        /\ Saved
        /\ UNCHANGED <<strategy, currentRoundRobinIndex, procs, completed, now, waited>>

\* the interval fires: time has passed to the next due instant and
\* refreshAllTokens runs one sweep
RefreshTick(failing) ==
    /\ refreshTimer # NoTimer
    /\ refreshTimer <= MaxNow + MaxSweeps * TOKEN_REFRESH_INTERVAL_MS
    /\ now' = refreshTimer
    /\ refreshTimer' = refreshTimer + TOKEN_REFRESH_INTERVAL_MS
    /\ accounts' = refreshAllTokens(accounts, failing, now')
    /\ streak' = [e \in RotateEmails |-> StreakAfter(accounts, accounts', e, FALSE)]
    /\ picks' = PicksAfter(accounts', strategy)
    /\ preferred' = PreferredAfter(accounts')
    /\ last' = [NoCall EXCEPT !.op = "refreshAllTokens", !.at = now', !.failing = failing]
    /\ Saved
    /\ UNCHANGED <<strategy, currentRoundRobinIndex, procs, completed, timers, waited>>

\* handleResponse of the response interceptor
HandleResponse(status, currentEmail, retryAfterMs) ==
    \E r \in {handleResponse(accounts, strategy, currentRoundRobinIndex,
                              status, currentEmail, retryAfterMs, now)} :
    LET existed == HasAccount(accounts, currentEmail)
    IN  /\ existed =>
              IF Branch(status) = 200
              THEN GetAccount(accounts, currentEmail).requestCount < MaxRequests
              ELSE GetAccount(accounts, currentEmail).failureCount < MaxHandled
        /\ accounts' = r.accounts
        /\ currentRoundRobinIndex' = r.index
        /\ streak' = [e \in RotateEmails |->
                         StreakAfter(accounts, r.accounts, e,
                                     e = currentEmail /\ Branch(status) = 0)]
        /\ picks' = IF r.selected THEN PicksAfterSelection(r.accounts, r.newCredentials)
                    ELSE PicksAfter(r.accounts, strategy)
        /\ preferred' = IF r.selected
                        THEN (IF strategy = "failover" THEN r.newCredentials ELSE Null)
                        ELSE PreferredAfter(r.accounts)
        /\ last' = [NoCall EXCEPT !.op = "handleResponse", !.email = currentEmail,
                                  !.status = status, !.retryAfterMs = retryAfterMs,
                                  !.at = now, !.action = r.action,
                                  !.account = r.newCredentials, !.delay = r.delay,
                                  !.run = RunAfter(status, currentEmail),
                                  !.before = IF existed
                                             THEN <<Counts(GetAccount(accounts, currentEmail))>>
                                             ELSE <<>>]
        /\ Saved
        /\ UNCHANGED <<strategy, now, procs, completed,
                       refreshTimer, timers, waited>>

\* time passes between calls
Tick ==
    /\ now < MaxNow
    /\ now' = now + TickMs
    /\ UNCHANGED <<accounts, strategy, currentRoundRobinIndex, last, streak, picks, preferred,
                   procs, completed,
                   refreshTimer, loaded, file, timers, waited>>

(* Spec: selection over accounts that fail and recover. Accounts are logged
   in with the default priority, failures are reported with the default
   cooldown, time passes and the strategy is changed at run time. *)
Next ==
    \/ \E e \in Emails : AddAccount(e, Undefined)
    \/ \E s \in Strategies : SetStrategy(s)
    \/ GetNextAccount
    \/ \E e \in Emails, r \in BOOLEAN : ReportFailure(e, r, RATE_LIMIT_COOLDOWN_MS)
    \/ Tick

Spec == Init /\ [][Next]_vars

(* SpecReport: the outcome reports by themselves, successes and failures
   with every cooldown, as time passes. *)
NextReport ==
    \/ \E e \in Emails : AddAccount(e, Undefined)
    \/ \E e \in Emails : ReportSuccess(e)
    \/ \E e \in Emails, r \in BOOLEAN, c \in Cooldowns : ReportFailure(e, r, c)
    \/ Tick

SpecReport == Init /\ [][NextReport]_vars

(* SpecSelect: accounts of differing priority and use, accounts removed and
   the strategy changed at run time; an account leaves the candidates by the
   disable command. *)
NextSelect ==
    \/ \E e \in Emails, p \in Priorities : AddAccount(e, p)
    \/ \E e \in Emails : RemoveAccount(e)
    \/ \E s \in Strategies : SetStrategy(s)
    \/ GetNextAccount
    \/ \E e \in Emails : ReportSuccess(e)
    \/ \E e \in Emails : Disable(e)
    \/ Tick

SpecSelect == Init /\ [][NextSelect]_vars

(* SpecRotate: round-robin rotation over up to three accounts. The strategy
   stays the initial round-robin; accounts are logged in (a repeated login
   re-enables a disabled account in place), removed and disabled. *)
NextRotate ==
    \/ \E e \in RotateEmails : AddAccount(e, Undefined)
    \/ \E e \in RotateEmails : RemoveAccount(e)
    \/ \E e \in RotateEmails : Disable(e)
    \/ GetNextAccount

SpecRotate == Init /\ [][NextRotate]_vars

(* SpecHandle: the response interceptor on requests that succeed or are
   rate-limited; retryAfterMs accompanies a 429 only. *)
NextHandle ==
    \/ \E e \in Emails : AddAccount(e, Undefined)
    \/ \E status \in LimitStatuses, e \in Emails, r \in RetryAfters :
          /\ status # 429 => r = Undefined
          /\ HandleResponse(status, e, r)
    \/ Tick

SpecHandle == Init /\ [][NextHandle]_vars

(* SpecRetry: the response interceptor on requests that fail with 401, 403,
   5xx or a status that has no branch of its own. *)
NextRetry ==
    \/ \E e \in Emails : AddAccount(e, Undefined)
    \/ \E status \in ErrorStatuses, e \in Emails : HandleResponse(status, e, Undefined)
    \/ Tick

SpecRetry == Init /\ [][NextRetry]_vars

(* SpecConc: report calls that overlap. A call yields at every await:
   after getAccount has read the record, after the caller has built its
   partial update, and after updateAccount has merged it (during save). *)
InFlight(email) == Cardinality({p \in Procs : procs[p].pc # "idle" /\ procs[p].email = email})

\* a first login of `email`
Login(email) ==
    /\ ~HasAccount(accounts, email)
    /\ InFlight(email) = 0
    /\ accounts' = MapSet(accounts, NewAccount(email, Undefined))
    /\ Saved
    /\ UNCHANGED <<strategy, currentRoundRobinIndex, now, last, streak, picks, preferred,
                   procs, completed,
                   refreshTimer, timers, waited>>

\* a caller starts reportSuccess(email) or reportFailure(email, isRateLimit):
\* the call runs up to the await of getAccount
CallReport(p, op, email, isRateLimit) ==
    /\ procs[p].pc = "idle"
    /\ HasAccount(accounts, email)
    /\ completed[email].success + completed[email].failure + InFlight(email) < MaxCalls
    /\ procs' = [procs EXCEPT ![p] =
                    [IdleProc EXCEPT !.pc = "getAccount", !.op = op, !.email = email,
                                     !.isRateLimit = isRateLimit,
                                     !.cooldownMs = RATE_LIMIT_COOLDOWN_MS]]
    /\ UNCHANGED <<accounts, strategy, currentRoundRobinIndex, now, last, streak,
                   picks, preferred, completed,
                   refreshTimer, loaded, file, timers, waited>>

\* getAccount resumes: this.accounts.get(email)
ProcGetAccount(p) ==
    /\ procs[p].pc = "getAccount"
    /\ procs' = [procs EXCEPT ![p].pc = "report",
                              ![p].read = IF HasAccount(accounts, procs[p].email)
                                          THEN <<GetAccount(accounts, procs[p].email)>>
                                          ELSE <<>>]
    /\ UNCHANGED <<accounts, strategy, currentRoundRobinIndex, now, last, streak,
                   picks, preferred, completed,
                   refreshTimer, loaded, file, timers, waited>>

\* the report resumes with the record read: it builds the partial update from
\* it and calls updateAccount, which runs up to its await of load
ProcReport(p) ==
    /\ procs[p].pc = "report"
    /\ procs' = [procs EXCEPT
          ![p].pc = IF procs[p].read = <<>> THEN "return" ELSE "updateAccount",
          ![p].updates =
              IF procs[p].read = <<>> THEN <<>>
              ELSE IF procs[p].op = "reportSuccess"
                   THEN <<SuccessUpdates(procs[p].read[1], now)>>
                   ELSE <<FailureUpdates(procs[p].read[1], procs[p].isRateLimit,
                                         procs[p].cooldownMs, now)>>]
    /\ UNCHANGED <<accounts, strategy, currentRoundRobinIndex, now, last, streak,
                   picks, preferred, completed,
                   refreshTimer, loaded, file, timers, waited>>

\* updateAccount resumes: it merges the partial update into the record the
\* store holds now, then awaits save
ProcUpdateAccount(p) ==
    /\ procs[p].pc = "updateAccount"
    /\ accounts' = UpdateAccount(accounts, procs[p].email, procs[p].updates[1])
    /\ procs' = [procs EXCEPT ![p].pc = "return"]
    /\ Saved
    /\ UNCHANGED <<strategy, currentRoundRobinIndex, now, last, streak, picks, preferred, completed,
                   refreshTimer, timers, waited>>

\* the call returns to its caller
ProcReturn(p) ==
    /\ procs[p].pc = "return"
    /\ completed' = [completed EXCEPT ![procs[p].email] =
          IF procs[p].op = "reportSuccess"
          THEN [@ EXCEPT !.success = @ + 1]
          ELSE [@ EXCEPT !.failure = @ + 1]]
    /\ last' = [NoCall EXCEPT !.op = procs[p].op, !.email = procs[p].email,
                              !.isRateLimit = procs[p].isRateLimit,
                              !.circuitBroken =
                                  IF procs[p].op = "reportFailure" /\ procs[p].read # <<>>
                                  THEN ReportFailureResult(procs[p].read[1], procs[p].isRateLimit)
                                  ELSE FALSE]
    /\ procs' = [procs EXCEPT ![p] = IdleProc]
    /\ UNCHANGED <<accounts, strategy, currentRoundRobinIndex, now, streak, picks, preferred,
                   refreshTimer, loaded, file, timers, waited>>

NextConc ==
    \/ \E e \in Emails : Login(e)
    \/ \E p \in Procs, e \in Emails : CallReport(p, "reportSuccess", e, FALSE)
    \/ \E p \in Procs, e \in Emails, r \in BOOLEAN : CallReport(p, "reportFailure", e, r)
    \/ \E p \in Procs : ProcGetAccount(p)
    \/ \E p \in Procs : ProcReport(p)
    \/ \E p \in Procs : ProcUpdateAccount(p)
    \/ \E p \in Procs : ProcReturn(p)

SpecConc == Init /\ [][NextConc]_vars

(* SpecRefresh: the auto-refresh task. Accounts log in through the provider
   or through the plugin, the first plugin login starts the interval, sweeps
   run at every interval tick;
   accounts are disabled by hand or by the failures the sweeps report. *)
NextRefresh ==
    \/ \E e \in Emails : AddAccount(e, Undefined)
    \/ \E e \in Emails, failing \in SUBSET Emails : PluginLogin(e, failing)
    \/ \E failing \in SUBSET Emails : RefreshTick(failing)
    \/ \E e \in Emails : Disable(e)
    \/ Tick

SpecRefresh == Init /\ [][NextRefresh]_vars

(* SpecAdmin: every operation that writes to an account, by round-robin
   selection: the reports, the status handlers, the refresh sweeps and the
   disable, enable and switch commands. *)
AdminStatuses == {429, 401, 403, 500}
\* the account the reports, the handlers and the commands are called for
AdminEmail == "a"
\* a second account, logged in through the plugin
OtherEmail == "b"

\* a rotator constructed with the priority strategy
InitAdmin ==
    /\ accounts = <<>>
    /\ strategy = "priority"
    /\ currentRoundRobinIndex = 0
    /\ now = StartNow
    /\ last = NoCall
    /\ streak = [e \in RotateEmails |-> -1]
    /\ picks = <<>>
    /\ preferred = Null
    /\ refreshTimer = NoTimer
    /\ timers = 0
    /\ waited = [e \in RotateEmails |-> 0]
    /\ loaded = FALSE
    /\ file = <<>>
    /\ procs = [p \in Procs |-> IdleProc]
    /\ completed = [e \in RotateEmails |-> [success |-> 0, failure |-> 0]]

NextAdmin ==
    \/ AddAccount(AdminEmail, Undefined)
    \/ \E failing \in SUBSET {AdminEmail} : PluginLogin(OtherEmail, failing)
    \/ Tick
    \/ GetNextAccount
    \/ ReportSuccess(AdminEmail)
    \/ ReportFailure(AdminEmail, FALSE, RATE_LIMIT_COOLDOWN_MS)
    \/ \E status \in AdminStatuses : HandleResponse(status, AdminEmail, Undefined)
    \/ Disable(AdminEmail)
    \/ Enable(AdminEmail)
    \/ Switch(AdminEmail)

SpecAdmin == InitAdmin /\ [][NextAdmin]_vars

(* SpecCommands: the disable, enable and switch commands over accounts that
   the breaker, a 429 or a 403 has taken out of the rotation. *)
CommandStatuses == {429, 403}

NextCommands ==
    \/ \E e \in Emails : AddAccount(e, Undefined)
    \/ \E e \in Emails : Disable(e)
    \/ \E e \in Emails : Enable(e)
    \/ \E e \in Emails : Switch(e)
    \/ SwitchNext
    \/ GetNextAccount
    \/ ReportFailure(AdminEmail, FALSE, RATE_LIMIT_COOLDOWN_MS)
    \/ \E status \in CommandStatuses : HandleResponse(status, AdminEmail, Undefined)

SpecCommands == Init /\ [][NextCommands]_vars

(* SpecLoad: the first calls on a manager whose file holds two accounts of
   an earlier run. A report call that finds the Map not loaded awaits
   fs.readFile in load(); the read completes at some later step and the
   continuation of load() replaces the Map by what was read. *)
InitLoad ==
    /\ accounts = <<>>
    /\ strategy = "round-robin"
    /\ currentRoundRobinIndex = 0
    /\ now = StartNow
    /\ last = NoCall
    /\ streak = [e \in RotateEmails |-> -1]
    /\ picks = <<>>
    /\ preferred = Null
    /\ refreshTimer = NoTimer
    /\ timers = 0
    /\ waited = [e \in RotateEmails |-> 0]
    /\ loaded = FALSE
    /\ file = <<NewAccount("a", Undefined), NewAccount("b", Undefined)>>
    /\ procs = [p \in Procs |-> IdleProc]
    /\ completed = [e \in RotateEmails |-> [success |-> 0, failure |-> 0]]

\* a caller starts reportSuccess(email) or reportFailure(email, isRateLimit):
\* the call runs into getAccount and load(), up to the await of getAccount
\* when the Map is loaded, up to the await of fs.readFile when it is not
CallReportLoading(p, op, email, isRateLimit) ==
    /\ procs[p].pc = "idle"
    /\ completed[email].success + completed[email].failure + InFlight(email) < MaxCalls
    /\ procs' = [procs EXCEPT ![p] =
                    [IdleProc EXCEPT !.pc = IF loaded THEN "getAccount" ELSE "readFile",
                                     !.op = op, !.email = email,
                                     !.isRateLimit = isRateLimit,
                                     !.cooldownMs = RATE_LIMIT_COOLDOWN_MS]]
    /\ UNCHANGED <<accounts, strategy, currentRoundRobinIndex, now, last, streak,
                   picks, preferred, completed, refreshTimer, loaded, file, timers, waited>>

\* fs.readFile reads the file
ProcReadFile(p) ==
    /\ procs[p].pc = "readFile"
    /\ procs' = [procs EXCEPT ![p].pc = "load", ![p].data = file]
    /\ UNCHANGED <<accounts, strategy, currentRoundRobinIndex, now, last, streak,
                   picks, preferred, completed, refreshTimer, loaded, file, timers, waited>>

\* load() resumes with the data read: it clears the Map, sets every account
\* of the data and sets loaded; without a file (ENOENT) the Map is left as it
\* is. getAll returns here, addAccount goes on to its set, a report to its
\* getAccount
ProcLoad(p) ==
    /\ procs[p].pc = "load"
    /\ accounts' = IF procs[p].data = <<>> THEN accounts ELSE procs[p].data
    /\ loaded' = TRUE
    /\ procs' = [procs EXCEPT ![p] =
                    IF procs[p].op = "getAll" THEN IdleProc
                    ELSE [procs[p] EXCEPT !.pc = IF procs[p].op = "addAccount"
                                                 THEN "set" ELSE "getAccount",
                                          !.data = <<>>]]
    /\ UNCHANGED <<strategy, currentRoundRobinIndex, now, last, streak,
                   picks, preferred, completed, refreshTimer, file, timers, waited>>

NextLoad ==
    \/ \E p \in Procs, e \in Emails : CallReportLoading(p, "reportSuccess", e, FALSE)
    \/ \E p \in Procs, e \in Emails, r \in BOOLEAN :
          CallReportLoading(p, "reportFailure", e, r)
    \/ \E p \in Procs : ProcReadFile(p)
    \/ \E p \in Procs : ProcLoad(p)
    \/ \E p \in Procs : ProcGetAccount(p)
    \/ \E p \in Procs : ProcReport(p)
    \/ \E p \in Procs : ProcUpdateAccount(p)
    \/ \E p \in Procs : ProcReturn(p)

SpecLoad == InitLoad /\ [][NextLoad]_vars

(* SpecSwitch: the interceptor with its awaits. handleResponse writes the
   failure it was handed, and its handler then awaits getNextAccount: other
   reports on the same account run while the write is being saved. *)

\* handleResponse up to the getNextAccount of its handler: the store it has
\* written, and whether the handler goes on to select (it answers retry
\* without selecting otherwise)
handleResponseUntilSelection(accts, status, currentEmail, retryAfterMs, t) ==
    IF status = 429
    THEN [accounts |-> reportFailure(accts, currentEmail, TRUE,
                                     OrElse(retryAfterMs, RATE_LIMIT_COOLDOWN_MS), t),
          selects |-> TRUE, delay |-> Undefined]
    ELSE IF status = 401
    THEN IF ~HasAccount(accts, currentEmail)
         THEN [accounts |-> accts, selects |-> TRUE, delay |-> Undefined]
         ELSE LET failureCount == OrElse(GetAccount(accts, currentEmail).failureCount, 0) + 1
                  updated == UpdateAccount(accts, currentEmail,
                                           [failureCount |-> failureCount, lastUsed |-> t])
              IN  IF ShouldRetry401(failureCount)
                  THEN [accounts |-> updated, selects |-> FALSE, delay |-> 1000]
                  ELSE [accounts |-> reportFailure(updated, currentEmail, FALSE,
                                                   RATE_LIMIT_COOLDOWN_MS, t),
                        selects |-> TRUE, delay |-> Undefined]
    ELSE IF status = 403
    THEN [accounts |-> UpdateAccount(accts, currentEmail,
                                     [isRateLimited |-> TRUE,
                                      rateLimitedUntil |-> t + LONG_COOLDOWN_MS,
                                      failureCount |-> CIRCUIT_BREAKER_THRESHOLD]),
          selects |-> TRUE, delay |-> Undefined]
    ELSE LET result == handle5xx(accts, currentEmail, t)
         IN  [accounts |-> result.accounts, selects |-> ~result.shouldRetry,
              delay |-> IF result.shouldRetry THEN result.delay ELSE Undefined]

\* handleResponse(status, currentEmail, retryAfterMs) runs up to the
\* getNextAccount of its handler, or to its end where the answer is retry
HandleResponseUntilSelection(p, status, currentEmail, retryAfterMs) ==
    \E r \in {handleResponseUntilSelection(accounts, status, currentEmail,
                                            retryAfterMs, now)} :
    /\ procs[p].pc = "idle"
    /\ HasAccount(accounts, currentEmail)
    /\ GetAccount(accounts, currentEmail).failureCount < MaxHandled
    /\ accounts' = r.accounts
    /\ procs' = [procs EXCEPT ![p] =
                    IF r.selects
                    THEN [IdleProc EXCEPT !.pc = "getNextAccount", !.op = "handleResponse",
                                          !.email = currentEmail, !.status = status]
                    ELSE IdleProc]
    /\ last' = IF r.selects
               THEN [NoCall EXCEPT !.op = "reportFailure", !.email = currentEmail,
                                   !.status = status, !.at = now]
               ELSE [NoCall EXCEPT !.op = "handleResponse", !.email = currentEmail,
                                   !.status = status, !.retryAfterMs = retryAfterMs,
                                   !.at = now, !.action = "retry", !.delay = r.delay]
    /\ Saved
    /\ UNCHANGED <<strategy, currentRoundRobinIndex, now, streak, picks, preferred,
                   completed, refreshTimer, timers, waited>>

\* the handler resumes: getNextAccount selects on the store as it is now, and
\* handleResponse answers switch with the account or fail without one
HandleResponseSelection(p) ==
    \E r \in {SwitchOrFail(getNextAccount(accounts, strategy, currentRoundRobinIndex, now))} :
    /\ procs[p].pc = "getNextAccount"
    /\ accounts' = r.accounts
    /\ currentRoundRobinIndex' = r.index
    /\ procs' = [procs EXCEPT ![p] = IdleProc]
    /\ last' = [NoCall EXCEPT !.op = "handleResponse", !.email = procs[p].email,
                              !.status = procs[p].status, !.at = now,
                              !.action = r.action, !.account = r.newCredentials]
    /\ Saved
    /\ UNCHANGED <<strategy, now, streak, picks, preferred, completed, refreshTimer, timers, waited>>

SwitchStatuses == {429, 401, 403, 500}
SwitchRetryAfters == {Undefined, SWITCH_COOLDOWN_MS}

NextSwitch ==
    \/ \E e \in Emails : AddAccount(e, Undefined)
    \/ \E p \in Procs, s \in SwitchStatuses, ms \in SwitchRetryAfters :
          HandleResponseUntilSelection(p, s, AdminEmail, ms)
    \/ \E p \in Procs : HandleResponseSelection(p)
    \/ ReportSuccess(AdminEmail)

SpecSwitch == Init /\ [][NextSwitch]_vars

(* SpecLoop: the retry loop of one call. A caller sends its request on an
   account, hands every failing status to handleResponse and follows the
   answer: on retry it sends the request again on the same account, after a
   token refresh where the status was 401. *)
LoopStatuses == {401, 500}

\* the request of caller p fails with `status`: handleResponse answers, and
\* the loop goes on while the answer is retry
RequestFails(p, status, currentEmail) ==
    \E r \in {handleResponse(accounts, strategy, currentRoundRobinIndex,
                              status, currentEmail, Undefined, now)} :
    /\ HasAccount(accounts, currentEmail)
    /\ procs[p].pc \in {"idle", "retry"}
    /\ procs[p].pc = "retry" => procs[p].email = currentEmail
    /\ procs[p].outcomes <= MaxHandled
    /\ GetAccount(accounts, currentEmail).failureCount < MaxHandled
    /\ accounts' = r.accounts
    /\ currentRoundRobinIndex' = r.index
    /\ procs' = [procs EXCEPT ![p] =
                    IF r.action = "retry"
                    THEN [IdleProc EXCEPT !.pc = "retry", !.op = "handleResponse",
                                          !.email = currentEmail, !.status = status,
                                          !.outcomes = procs[p].outcomes + 1]
                    ELSE IdleProc]
    /\ last' = [NoCall EXCEPT !.op = "handleResponse", !.email = currentEmail,
                              !.status = status, !.at = now, !.action = r.action,
                              !.account = r.newCredentials, !.delay = r.delay,
                              !.outcomes = procs[p].outcomes + 1]
    /\ Saved
    /\ UNCHANGED <<strategy, now, streak, picks, preferred, completed, refreshTimer, timers, waited>>

\* caller p, told to retry after a 401, refreshes the token of the account
\* and stores it with updateAccountTokens
RefreshBeforeRetry(p) ==
    /\ procs[p].pc = "retry"
    /\ procs[p].status = 401
    /\ accounts' = updateAccountTokens(accounts, procs[p].email, RefreshedToken(now),
                                       RefreshedExpiresAt(now), now)
    /\ accounts' # accounts
    /\ last' = [NoCall EXCEPT !.op = "updateAccountTokens", !.email = procs[p].email,
                              !.at = now]
    /\ Saved
    /\ UNCHANGED <<strategy, currentRoundRobinIndex, now, streak, picks, preferred,
                   procs, completed, refreshTimer, timers, waited>>

NextLoop ==
    \/ \E e \in Emails : Login(e)
    \/ \E p \in Procs, s \in LoopStatuses : RequestFails(p, s, AdminEmail)
    \/ \E p \in Procs : RefreshBeforeRetry(p)

SpecLoop == Init /\ [][NextLoop]_vars

(* SpecStarve: round-robin selections while one account is disabled and
   enabled again; the other accounts stay available from their login on. *)

\* getNextAccount, counting for every account the selections that pass it over
GetNextAccountCounted ==
    \E r \in {getNextAccount(accounts, strategy, currentRoundRobinIndex, now)} :
    /\ \A e \in RotateEmails : waited[e] < MaxPicks
    /\ accounts' = r.accounts
    /\ currentRoundRobinIndex' = r.index
    /\ waited' = [e \in RotateEmails |->
                     IF e = r.account \/ ~HasAccount(r.accounts, e)
                        \/ GetAccount(r.accounts, e).isRateLimited
                     THEN 0 ELSE waited[e] + 1]
    /\ streak' = [e \in RotateEmails |-> StreakAfter(accounts, r.accounts, e, FALSE)]
    /\ picks' = PicksAfterSelection(r.accounts, r.account)
    /\ preferred' = IF strategy = "failover" THEN r.account ELSE Null
    /\ last' = [NoCall EXCEPT !.op = "getNextAccount", !.account = r.account,
                              !.cleared = ClearedCount(accounts, now),
                              !.previous = preferred]
    /\ Saved
    /\ UNCHANGED <<strategy, now, procs, completed, refreshTimer, timers>>

NextStarve ==
    \/ \E e \in RotateEmails : AddAccount(e, Undefined)
    \/ Disable(AdminEmail)
    \/ Enable(AdminEmail)
    \/ GetNextAccountCounted

SpecStarve == Init /\ [][NextStarve]_vars

(* SpecTimer: plugin logins with their awaits. The run of a login tests
   refreshTimer, awaits startAutoTokenRefresh (which awaits its first sweep
   before it calls setInterval) and assigns the handle when that returns. *)

\* a plugin login of `email` by caller p: addAccount, the test of
\* refreshTimer and the call of startAutoTokenRefresh, up to its await
PluginLoginUntilSweep(p, email) ==
    /\ procs[p].pc = "idle"
    /\ accounts' = MapSet(accounts, [NewAccount(email, 1) EXCEPT !.lastRefreshed = now])
    /\ procs' = [procs EXCEPT ![p] =
                    IF refreshTimer = NoTimer
                    THEN [IdleProc EXCEPT !.pc = "startAutoTokenRefresh", !.op = "login",
                                          !.email = email]
                    ELSE IdleProc]
    /\ streak' = [e \in RotateEmails |->
                     IF e = email THEN 0 ELSE StreakAfter(accounts, accounts', e, FALSE)]
    /\ picks' = PicksAfter(accounts', strategy)
    /\ preferred' = PreferredAfter(accounts')
    /\ last' = [NoCall EXCEPT !.op = "addAccount", !.email = email, !.at = now]
    /\ Saved
    /\ UNCHANGED <<strategy, currentRoundRobinIndex, now, completed, refreshTimer,
                   timers, waited>>

\* startAutoTokenRefresh resumes for caller p: the first sweep, setInterval,
\* and the assignment of the handle to refreshTimer
PluginLoginSetsInterval(p, failing) ==
    /\ procs[p].pc = "startAutoTokenRefresh"
    /\ accounts' = refreshAllTokens(accounts, failing, now)
    /\ timers' = timers + 1
    /\ refreshTimer' = now + TOKEN_REFRESH_INTERVAL_MS
    /\ procs' = [procs EXCEPT ![p] = IdleProc]
    /\ streak' = [e \in RotateEmails |-> StreakAfter(accounts, accounts', e, FALSE)]
    /\ picks' = PicksAfter(accounts', strategy)
    /\ preferred' = PreferredAfter(accounts')
    /\ last' = [NoCall EXCEPT !.op = "login", !.email = procs[p].email, !.at = now,
                              !.failing = failing]
    /\ Saved
    /\ UNCHANGED <<strategy, currentRoundRobinIndex, now, completed, waited>>

NextTimer ==
    \/ \E p \in Procs, e \in Emails : PluginLoginUntilSweep(p, e)
    \/ \E p \in Procs, failing \in SUBSET Emails : PluginLoginSetsInterval(p, failing)
    \/ RefreshTick({})
    \/ Tick

SpecTimer == Init /\ [][NextTimer]_vars

(* SpecStore: addAccount and getAll calls that overlap on a manager that has
   not loaded its file yet. The file holds the account of an earlier run. *)
InitStore ==
    /\ accounts = <<>>
    /\ strategy = "round-robin"
    /\ currentRoundRobinIndex = 0
    /\ now = StartNow
    /\ last = NoCall
    /\ streak = [e \in RotateEmails |-> -1]
    /\ picks = <<>>
    /\ preferred = Null
    /\ refreshTimer = NoTimer
    /\ timers = 0
    /\ waited = [e \in RotateEmails |-> 0]
    /\ loaded = FALSE
    /\ file = <<NewAccount("c", Undefined)>>
    /\ procs = [p \in Procs |-> IdleProc]
    /\ completed = [e \in RotateEmails |-> [success |-> 0, failure |-> 0]]

\* a caller starts addAccount(email): the call runs into load(), up to the
\* await of fs.readFile when the Map is not loaded
CallAddAccount(p, email) ==
    /\ procs[p].pc = "idle"
    /\ completed[email].success + InFlight(email) < MaxCalls
    /\ procs' = [procs EXCEPT ![p] =
                    [IdleProc EXCEPT !.pc = IF loaded THEN "set" ELSE "readFile",
                                     !.op = "addAccount", !.email = email]]
    /\ UNCHANGED <<accounts, strategy, currentRoundRobinIndex, now, last, streak,
                   picks, preferred, completed, refreshTimer, loaded, file, timers, waited>>

\* a caller starts getAll() on a manager that is not loaded
CallGetAll(p) ==
    /\ procs[p].pc = "idle"
    /\ ~loaded
    /\ procs' = [procs EXCEPT ![p] = [IdleProc EXCEPT !.pc = "readFile", !.op = "getAll"]]
    /\ UNCHANGED <<accounts, strategy, currentRoundRobinIndex, now, last, streak,
                   picks, preferred, completed, refreshTimer, loaded, file, timers, waited>>

\* addAccount resumes after load(): this.accounts.set, then save() up to its
\* await of fs.mkdir
ProcSet(p) ==
    /\ procs[p].pc = "set"
    /\ accounts' = MapSet(accounts, NewAccount(procs[p].email, Undefined))
    /\ procs' = [procs EXCEPT ![p].pc = "save"]
    /\ UNCHANGED <<strategy, currentRoundRobinIndex, now, last, streak, picks, preferred,
                   completed, refreshTimer, loaded, file, timers, waited>>

\* save() resumes: it writes the accounts the Map holds now, and addAccount
\* returns
ProcSave(p) ==
    /\ procs[p].pc = "save"
    /\ file' = accounts
    /\ completed' = [completed EXCEPT ![procs[p].email].success = @ + 1]
    /\ last' = [NoCall EXCEPT !.op = "addAccount", !.email = procs[p].email]
    /\ procs' = [procs EXCEPT ![p] = IdleProc]
    /\ UNCHANGED <<accounts, strategy, currentRoundRobinIndex, now, streak, picks,
                   preferred, refreshTimer, loaded, timers, waited>>

NextStore ==
    \/ \E p \in Procs, e \in Emails : CallAddAccount(p, e)
    \/ \E p \in Procs : CallGetAll(p)
    \/ \E p \in Procs : ProcReadFile(p)
    \/ \E p \in Procs : ProcLoad(p)
    \/ \E p \in Procs : ProcSet(p)
    \/ \E p \in Procs : ProcSave(p)

SpecStore == InitStore /\ [][NextStore]_vars

(* SpecExpiry: every operation that takes an account out of the rotation,
   and the time that brings it back. *)
NextExpiry ==
    \/ \E e \in Emails : AddAccount(e, Undefined)
    \/ \E r \in BOOLEAN : ReportFailure(AdminEmail, r, RATE_LIMIT_COOLDOWN_MS)
    \/ HandleResponse(403, AdminEmail, Undefined)
    \/ Disable(AdminEmail)
    \/ SwitchNext
    \/ GetNextAccount
    \/ Tick

SpecExpiry == Init /\ [][NextExpiry]_vars

(* ---------------------------------------------------------------- claims *)
Present == {accounts[i].email : i \in 1..Len(accounts)}
EmailsOfSet(accts) == {accts[i].email : i \in 1..Len(accts)}
Stored(email) == GetAccount(accounts, email)

\* C1: no update is lost when report calls on one account overlap: once
\* every call on the account has returned, k returned reportSuccess calls
\* have raised requestCount by k, and k returned reportFailure calls with no
\* reportSuccess among them have raised failureCount by k.
NoLostReport ==
    \A e \in Present :
        InFlight(e) = 0 =>
            /\ Stored(e).requestCount = completed[e].success
            /\ completed[e].success = 0 => Stored(e).failureCount = completed[e].failure

\* C2: from failureCount 0 and not rate-limited, one or two consecutive
\* reportFailure(email, false) calls leave the account not rate-limited; the
\* third sets isRateLimited and rateLimitedUntil = now + cooldownMs.
ThirdConsecutiveFailureTrips ==
    \A e \in Present :
        /\ streak[e] \in {1, 2} => ~Stored(e).isRateLimited
        /\ streak[e] = CIRCUIT_BREAKER_THRESHOLD =>
              /\ Stored(e).isRateLimited
              /\ (last.op = "reportFailure" /\ last.email = e)
                    => Stored(e).rateLimitedUntil = last.at + last.cooldownMs

ThirdFailureReported ==
    \E e \in Present :
        /\ streak[e] = CIRCUIT_BREAKER_THRESHOLD
        /\ last.op = "reportFailure" /\ last.email = e /\ ~last.isRateLimit
        /\ last.cooldownMs = RATE_LIMIT_COOLDOWN_MS

\* C3 as claimed: reportFailure returns true exactly when the incremented
\* failureCount reached the threshold or the call was a rate-limit report.
ReturnsTrueOnTripOrRateLimit ==
    last.op = "reportFailure" =>
        last.circuitBroken =
            (/\ last.email \in Present
             /\ (Stored(last.email).failureCount >= CIRCUIT_BREAKER_THRESHOLD
                 \/ last.isRateLimit))

\* C3 amended: reportFailure returns true exactly when the incremented
\* failureCount is at least the threshold, whatever isRateLimit was; for an
\* unknown email it returns false.
ReturnsTrueIffThresholdReached ==
    last.op = "reportFailure" =>
        last.circuitBroken =
            (/\ last.email \in Present
             /\ Stored(last.email).failureCount >= CIRCUIT_BREAKER_THRESHOLD)

RateLimitReportBelowThreshold ==
    /\ last.op = "reportFailure" /\ last.isRateLimit
    /\ last.email \in Present
    /\ Stored(last.email).failureCount < CIRCUIT_BREAKER_THRESHOLD
    /\ Stored(last.email).isRateLimited
    /\ ~last.circuitBroken

\* C4 as claimed: a getNextAccount call writes nothing to the store.
SelectionWritesNothing == [][GetNextAccount => accounts' = accounts]_vars

OtherFields == {"email", "priority", "lastUsed", "requestCount", "accessToken", "expiresAt",
                "lastRefreshed"}

\* C4 amended: getNextAccount writes to the store only to clear expired rate
\* limits: of an account with isRateLimited and rateLimitedUntil <= now it
\* resets isRateLimited, rateLimitedUntil and failureCount and nothing else;
\* every other record is identical, and no record is added, removed or moved.
SelectionOnlyClearsExpired ==
    [][GetNextAccount =>
        /\ Len(accounts') = Len(accounts)
        /\ \A i \in 1..Len(accounts) :
              IF /\ accounts[i].isRateLimited
                 /\ accounts[i].rateLimitedUntil # Undefined
                 /\ accounts[i].rateLimitedUntil <= now
              THEN \A f \in OtherFields : accounts'[i][f] = accounts[i][f]
              ELSE accounts'[i] = accounts[i]]_vars

SelectedWithOneCleared ==
    /\ last.op = "getNextAccount"
    /\ last.cleared = 1
    /\ \E e \in Present : Stored(e).isRateLimited
    /\ \E e \in Present : ~Stored(e).isRateLimited /\ Stored(e).lastUsed # Undefined

\* C5: an account with isRateLimited and rateLimitedUntil <= now is a
\* candidate of the very next getNextAccount call, and after the call it has
\* isRateLimited false, no rateLimitedUntil and failureCount 0.
ExpiredLimitClearedOnSelection ==
    [][GetNextAccount =>
        \A i \in 1..Len(accounts) :
            (/\ accounts[i].isRateLimited
             /\ accounts[i].rateLimitedUntil # Undefined
             /\ accounts[i].rateLimitedUntil <= now)
            => /\ ~accounts'[i].isRateLimited
               /\ accounts'[i].rateLimitedUntil = Undefined
               /\ accounts'[i].failureCount = 0
               /\ accounts'[i].email = accounts[i].email
               /\ \E j \in 1..Len(Available(accounts')) :
                     Available(accounts')[j].email = accounts[i].email
               /\ last'.account # Null]_vars

SelectedWithAllCleared ==
    /\ last.op = "getNextAccount"
    /\ Len(accounts) = 2
    /\ last.cleared = Len(accounts)
    /\ last.account # Null

\* C6: every account getNextAccount returns is in the store with
\* isRateLimited false when the call returns; an account whose
\* rateLimitedUntil is still ahead is never returned.
ReturnedAccountNotRateLimited ==
    (last.op = "getNextAccount" /\ last.account # Null) =>
        /\ last.account \in Present
        /\ ~Stored(last.account).isRateLimited

SelectedPastLimitedAccount ==
    /\ last.op = "getNextAccount" /\ last.account # Null
    /\ \E e \in Present : Stored(e).isRateLimited /\ Stored(e).rateLimitedUntil > now

\* C7: getNextAccount returns null exactly when, after the clearing, no
\* account of the store has isRateLimited false (the empty store included),
\* and the call completes without time passing.
NullIffNoneAvailable ==
    /\ last.op = "getNextAccount" =>
          (last.account = Null <=> \A e \in Present : Stored(e).isRateLimited)
    /\ ENABLED GetNextAccount

NullWithEveryAccountLimited ==
    /\ last.op = "getNextAccount" /\ last.account = Null
    /\ Len(accounts) = 2

\* C8: under round-robin, while the candidate list stays the same N accounts,
\* every N consecutive selections return each candidate exactly once, each
\* selection returns the successor (in store order) of the one before, and
\* the cycle repeats.
PositionIn(seq, x) == CHOOSE i \in 1..Len(seq) : seq[i] = x

RoundRobinVisitsEachOncePerCycle ==
    strategy = "round-robin" =>
        LET c == EmailsOf(Available(accounts))
            n == Len(c)
        IN  \A i \in 1..Len(picks) :
              /\ \E j \in 1..n : c[j] = picks[i]
              /\ i < Len(picks) => picks[i + 1] = c[(PositionIn(c, picks[i]) % n) + 1]
              /\ i + n <= Len(picks) => picks[i + n] = picks[i]
              /\ i + n - 1 <= Len(picks) =>
                    {picks[j] : j \in i..(i + n - 1)} = {c[j] : j \in 1..n}

ThreeAccountCycleRepeats ==
    /\ strategy = "round-robin"
    /\ Len(Available(accounts)) = 3
    /\ Len(picks) = MaxPicks

\* C9: under the priority strategy getNextAccount returns a candidate whose
\* priority (absent counting as 1) is at least the priority of every other
\* available account.
PriorityOf(a) == Nullish(a.priority, 1)

PriorityReturnsMaximal ==
    (last.op = "getNextAccount" /\ strategy = "priority" /\ last.account # Null) =>
        \A e \in Present :
            ~Stored(e).isRateLimited =>
                PriorityOf(Stored(last.account)) >= PriorityOf(Stored(e))

\* the field the strategy ranks by
RankField(a) == IF strategy = "priority" THEN a.priority ELSE a.requestCount
\* key order: the order of the keys in the store
KeyBefore(e1, e2) == IndexOf(accounts, e1) < IndexOf(accounts, e2)
Ranking == strategy \in {"priority", "least-used"}

\* C10 as claimed: under priority and least-used, of the candidates that tie
\* with the returned one on the ranking field the returned one has the
\* earliest lastUsed, and among equal lastUsed comes first in key order.
TieBrokenByLastUsedThenKey ==
    (last.op = "getNextAccount" /\ Ranking /\ last.account # Null) =>
        \A e \in Present \ {last.account} :
            (/\ ~Stored(e).isRateLimited
             /\ RankField(Stored(e)) = RankField(Stored(last.account))
             /\ Stored(e).lastUsed # Undefined
             /\ Stored(last.account).lastUsed # Undefined)
            => \/ Stored(last.account).lastUsed < Stored(e).lastUsed
               \/ /\ Stored(last.account).lastUsed = Stored(e).lastUsed
                  /\ KeyBefore(last.account, e)

\* C10 amended: under priority and least-used, of the candidates that compare
\* equal to the returned one (priority || 1, requestCount || 0) the returned
\* one comes first in the store's insertion order; lastUsed and the order of
\* the emails play no part.
TieBrokenByStoreOrder ==
    (last.op = "getNextAccount" /\ Ranking /\ last.account # Null) =>
        LET av == Available(accounts)
            i == PositionIn(EmailsOf(av), last.account)
        IN  \A j \in 1..Len(av) :
                (j # i /\ Compare(strategy, av[j], av[i]) = 0) => j > i

FirstOfTieReturnedThoughUsedLater ==
    /\ last.op = "getNextAccount" /\ Ranking /\ last.account # Null
    /\ \E e \in Present \ {last.account} :
          /\ ~Stored(e).isRateLimited
          /\ Compare(strategy, Stored(e), Stored(last.account)) = 0
          /\ Stored(e).lastUsed # Undefined
          /\ Stored(e).lastUsed < Stored(last.account).lastUsed

\* C11: under the least-used strategy getNextAccount returns a candidate whose
\* requestCount (absent counting as 0) is at most the requestCount of every
\* other available account.
RequestCountOf(a) == Nullish(a.requestCount, 0)

LeastUsedReturnsMinimal ==
    (last.op = "getNextAccount" /\ strategy = "least-used" /\ last.account # Null) =>
        \A e \in Present :
            ~Stored(e).isRateLimited =>
                RequestCountOf(Stored(last.account)) <= RequestCountOf(Stored(e))

LeastUsedPassedOverFirstCandidate ==
    /\ last.op = "getNextAccount" /\ strategy = "least-used" /\ last.account # Null
    /\ LET av == Available(accounts)
       IN  /\ Len(av) = 2
           /\ av[1].email # last.account
           /\ RequestCountOf(Stored(last.account)) < RequestCountOf(av[1])

\* C12 as claimed: under failover, a selection returns the account the
\* selection before it returned whenever that account has stayed available
\* in between, whatever happened to the other accounts.
FailoverKeepsAccountWhileAvailable ==
    (last.op = "getNextAccount" /\ strategy = "failover" /\ last.previous # Null) =>
        last.account = last.previous

\* C12 amended: under failover, a selection returns the account the selection
\* before it returned whenever that account has stayed available in between,
\* unless an account that precedes it in the store's insertion order is
\* available again: then that earlier account is returned.
FailoverKeepsAccountUnlessEarlierAvailable ==
    (last.op = "getNextAccount" /\ strategy = "failover" /\ last.previous # Null) =>
        /\ last.account # Null
        /\ \/ last.account = last.previous
           \/ IndexOf(accounts, last.account) < IndexOf(accounts, last.previous)
        /\ (\A i \in 1..(IndexOf(accounts, last.previous) - 1) : accounts[i].isRateLimited)
              => last.account = last.previous

FailoverStayedOnSecondAccount ==
    /\ last.op = "getNextAccount" /\ strategy = "failover"
    /\ last.previous # Null /\ last.account = last.previous
    /\ IndexOf(accounts, last.account) = 2
    /\ accounts[1].isRateLimited

\* the last call went through handleResponse on an account in the store
Handled(branch) ==
    last.op = "handleResponse" /\ Branch(last.status) = branch /\ last.before # <<>>
\* what that call found in the account, and the account as it left it
Before == last.before[1]
After == Stored(last.email)

\* C13: a 2xx outcome on an existing account (handleResponse calling
\* reportSuccess) raises requestCount by exactly 1, sets failureCount to 0 and
\* lastUsed to now, clears isRateLimited and rateLimitedUntil, and returns
\* action continue with no replacement account.
SuccessResetsAccount ==
    Handled(200) =>
        /\ After.requestCount = Before.requestCount + 1
        /\ After.failureCount = 0
        /\ After.lastUsed = last.at
        /\ ~After.isRateLimited
        /\ After.rateLimitedUntil = Undefined
        /\ last.action = "continue" /\ last.account = Null

SuccessOnRateLimitedAccount ==
    /\ Handled(200)
    /\ Before.isRateLimited /\ Before.failureCount > 0

\* the accounts other than the one the last call was about that are available
OthersAvailable == {e \in Present \ {last.email} : ~Stored(e).isRateLimited}

\* C14 as claimed: a 429 on an existing account leaves it rate-limited with
\* rateLimitedUntil set; the action is switch to a different account whenever
\* the store holds at least 2 accounts, fail when it holds only the failing one.
RateLimitSwitchesWheneverTwoAccountsExist ==
    Handled(429) =>
        /\ After.isRateLimited /\ After.rateLimitedUntil # Undefined
        /\ Len(accounts) >= 2 =>
              last.action = "switch" /\ last.account \notin {Null, last.email}
        /\ Len(accounts) = 1 => last.action = "fail" /\ last.account = Null

\* C14 amended: a 429 on an existing account leaves it rate-limited with
\* rateLimitedUntil later than the call; the action is switch to a different,
\* available account when some other account is available once expired limits
\* are cleared, and fail otherwise, however many accounts the store holds.
RateLimitSwitchesWhenAnotherIsAvailable ==
    Handled(429) =>
        /\ After.isRateLimited /\ After.rateLimitedUntil > last.at
        /\ OthersAvailable # {} =>
              last.action = "switch" /\ last.account \in OthersAvailable
        /\ OthersAvailable = {} => last.action = "fail" /\ last.account = Null

RateLimitWithOtherAccountLimited ==
    /\ Handled(429)
    /\ Len(accounts) = 2 /\ OthersAvailable = {}
    /\ last.action = "fail"

\* C15: on a 429 the failing account's rateLimitedUntil is now + retryAfterMs
\* whenever retryAfterMs is supplied, 0 included, and now + 60 s only when it
\* is left out.
CooldownIsRetryAfterWhenSupplied ==
    Handled(429) =>
        After.rateLimitedUntil = last.at + Nullish(last.retryAfterMs, RATE_LIMIT_COOLDOWN_MS)

\* the action is switch to an available account other than the failing one,
\* or fail when there is none
SwitchedOrFailed ==
    /\ OthersAvailable # {} => last.action = "switch" /\ last.account \in OthersAvailable
    /\ OthersAvailable = {} => last.action = "fail" /\ last.account = Null

BackoffDelaysDoubleThroughThird ==
    (Handled(500) /\ last.run \in 1..3) =>
        last.delay = (2 ^ (last.run - 1)) * 1000

ForbiddenDisablesForAnHour ==
    Handled(403) =>
        /\ After.isRateLimited
        /\ After.rateLimitedUntil = last.at + 60 * 60 * 1000
        /\ After.failureCount = 3
        /\ SwitchedOrFailed

ForbiddenOnFreshAccountSwitched ==
    /\ Handled(403) /\ Before.failureCount = 0 /\ ~Before.isRateLimited
    /\ last.action = "switch"

\* C20: a status that is not 2xx, 429, 401, 403 or 5xx returns continue with
\* no replacement account on every call, the call that trips the breaker
\* included, and on an existing account has the effect of
\* reportFailure(isRateLimit false): failureCount raised by 1, lastUsed set,
\* the account rate-limited for the default cooldown from the third on.
UnclassifiedStatusReportsAndContinues ==
    (last.op = "handleResponse" /\ Branch(last.status) = 0) =>
        /\ last.action = "continue" /\ last.account = Null
        /\ last.before # <<>> =>
              /\ After.failureCount = Before.failureCount + 1
              /\ After.lastUsed = last.at
              /\ After.failureCount >= CIRCUIT_BREAKER_THRESHOLD =>
                    /\ After.isRateLimited
                    /\ After.rateLimitedUntil = last.at + RATE_LIMIT_COOLDOWN_MS
              /\ After.failureCount < CIRCUIT_BREAKER_THRESHOLD =>
                    /\ After.isRateLimited = Before.isRateLimited
                    /\ After.rateLimitedUntil = Before.rateLimitedUntil

UnclassifiedStatusTrippedBreaker ==
    /\ Handled(0) /\ last.status \in {300, 600}
    /\ ~Before.isRateLimited /\ After.isRateLimited
    /\ After.failureCount = CIRCUIT_BREAKER_THRESHOLD
    /\ last.action = "continue"

\* C21: requestCount of an account never decreases: across every step
\* (selection, reports, a repeated login of the same email) the stored
\* requestCount of an email that stays in the store is at least what it was.
RequestCountNeverDecreases ==
    [][\A e \in Emails :
          (HasAccount(accounts, e) /\ HasAccount(accounts', e)) =>
              GetAccount(accounts', e).requestCount >= GetAccount(accounts, e).requestCount]_vars

\* C24: in every reachable state failureCount of every account lies in
\* 0..CIRCUIT_BREAKER_THRESHOLD.
FailureCountWithinThreshold ==
    \A e \in Present : Stored(e).failureCount \in 0..CIRCUIT_BREAKER_THRESHOLD

\* C28: a response handled for an email absent from the store is never
\* answered with action retry, and the call leaves the store unchanged.
AbsentEmailNotRetried ==
    [][(last'.op = "handleResponse" /\ last'.before = <<>> /\ last' # last) =>
          (last'.action # "retry" /\ accounts' = accounts)]_vars

\* a step in which refreshAllTokens ran one sweep: the interval was set or fired
SweepStep == refreshTimer' # refreshTimer
\* the accounts a sweep step found in the store, but for the one its login stored
Swept == {e \in Present : refreshTimer = NoTimer => e # last'.email}
\* the record of `email` after the step
StoredAfter(email) == GetAccount(accounts', email)
InWindow(a, t) == ~a.isRateLimited /\ a.expiresAt - t < TOKEN_EXPIRY_THRESHOLD_MS

\* C25: a refresh sweep writes only to accounts that, when it starts, are not
\* rate-limited and have expiresAt - now < TOKEN_EXPIRY_THRESHOLD_MS: every
\* other account has the same record before and after the sweep, and no
\* record is added, removed or moved.
SweepOnlyTouchesWindow ==
    [][SweepStep =>
          /\ Len(accounts') =
                Len(accounts) + (IF refreshTimer = NoTimer /\ last'.email \notin Present
                                 THEN 1 ELSE 0)
          /\ \A i \in 1..Len(accounts) : accounts'[i].email = accounts[i].email
          /\ \A e \in Swept :
                ~InWindow(Stored(e), now') => StoredAfter(e) = Stored(e)]_vars

\* a sweep has refreshed one account and has left alone another that was
\* rate-limited with its token inside the window
SweepPassedOverLimitedAccount ==
    /\ last.op = "refreshAllTokens"
    /\ \E e1, e2 \in Present :
          /\ Stored(e1).lastRefreshed = last.at
          /\ Stored(e2).isRateLimited
          /\ Stored(e2).expiresAt - last.at < TOKEN_EXPIRY_THRESHOLD_MS
          /\ Stored(e2).lastRefreshed # last.at
          /\ Stored(e2).lastUsed # last.at

\* C26: in one sweep a refresh that fails is a reportFailure(email, false) on
\* that account and nothing else: failureCount + 1, lastUsed = now, the breaker
\* tripping at the threshold, its tokens as they were. Every other account of
\* the sweep is refreshed: accessToken, expiresAt and lastRefreshed are
\* updated and failureCount is 0.
SweepIsolatesRefreshFailure ==
    [][SweepStep =>
          \A e \in Swept :
             InWindow(Stored(e), now') =>
                IF e \in last'.failing
                THEN /\ StoredAfter(e).failureCount = Stored(e).failureCount + 1
                     /\ StoredAfter(e).lastUsed = now'
                     /\ StoredAfter(e).isRateLimited =
                            (Stored(e).failureCount + 1 >= CIRCUIT_BREAKER_THRESHOLD)
                     /\ \A f \in {"accessToken", "expiresAt", "lastRefreshed",
                                  "requestCount", "priority"} :
                            StoredAfter(e)[f] = Stored(e)[f]
                ELSE /\ StoredAfter(e).accessToken = RefreshedToken(now')
                     /\ StoredAfter(e).expiresAt = RefreshedExpiresAt(now')
                     /\ StoredAfter(e).lastRefreshed = now'
                     /\ StoredAfter(e).failureCount = 0
                     /\ \A f \in {"lastUsed", "isRateLimited", "rateLimitedUntil",
                                  "requestCount", "priority"} :
                            StoredAfter(e)[f] = Stored(e)[f]]_vars

\* a sweep in which the refresh of the first account failed and the account
\* after it was refreshed
SweepWentOnAfterFailure ==
    /\ last.op = "refreshAllTokens"
    /\ Len(accounts) >= 2
    /\ accounts[1].email \in last.failing
    /\ accounts[1].lastUsed = last.at
    /\ accounts[1].failureCount > 0
    /\ accounts[2].lastRefreshed = last.at
    /\ accounts[2].failureCount = 0

\* C27: the refresh scheduler can be stopped: whenever the interval is
\* running, some operation of the program clears it, after which no sweep
\* tick runs (RefreshTick needs a running interval).
SchedulerCanBeStopped ==
    refreshTimer # NoTimer => ENABLED (NextRefresh /\ refreshTimer' = NoTimer)

\* C30: after the enable command on an existing account, whatever took the
\* account out of the rotation, it has isRateLimited false, no
\* rateLimitedUntil and failureCount 0, and it is among the accounts the next
\* getNextAccount selects from.
EnableRestoresAccount ==
    last.op = "enable" =>
        /\ ~Stored(last.email).isRateLimited
        /\ Stored(last.email).rateLimitedUntil = Undefined
        /\ Stored(last.email).failureCount = 0
        /\ HasAccount(Available(ClearExpiredRateLimits(accounts, now)), last.email)

\* enable has been called on an account that was rate-limited with the
\* breaker threshold reached
EnabledTrippedAccount ==
    /\ last.op = "enable"
    /\ last.before[1].isRateLimited
    /\ last.before[1].failureCount >= CIRCUIT_BREAKER_THRESHOLD
    /\ Fresh(Stored(last.email))

\* the step completed a reported success on `email`
SuccessOn(email) ==
    /\ last'.email = email
    /\ \/ last'.op = "reportSuccess"
       \/ last'.op = "handleResponse" /\ Branch(last'.status) = 200
\* the step completed one of: a selection, reportFailure, a 429, 401, 403 or
\* 5xx handler, the disable, enable or switch command
FrameStep ==
    \/ last'.op \in {"getNextAccount", "reportFailure", "disable", "enable", "switch",
                     "switchNext"}
    \/ last'.op = "handleResponse" /\ Branch(last'.status) \in {429, 401, 403, 500}
\* the accounts that are in the store before and after the step
Staying == {e \in Present : HasAccount(accounts', e)}

\* C22: requestCount changes only through a reported success: a selection,
\* reportFailure, the 429, 401, 403 and 5xx handlers, a refresh sweep and the
\* disable, enable and switch commands leave requestCount of every account
\* as it was, and no step raises requestCount of an account but a reported
\* success on that account.
RequestCountChangesOnlyBySuccess ==
    [][/\ FrameStep =>
             \A e \in Staying : StoredAfter(e).requestCount = Stored(e).requestCount
       /\ SweepStep =>
             \A e \in Swept : StoredAfter(e).requestCount = Stored(e).requestCount
       /\ \A e \in Staying :
             StoredAfter(e).requestCount > Stored(e).requestCount => SuccessOn(e)]_vars

\* a sweep has refreshed an account that had been used with success
RefreshedAccountKeptRequestCount ==
    /\ last.op = "login"
    /\ HasAccount(accounts, AdminEmail)
    /\ Stored(AdminEmail).lastRefreshed = last.at
    /\ Stored(AdminEmail).requestCount >= 1

\* the step lowered failureCount of `email`
Lowered(email) == StoredAfter(email).failureCount < Stored(email).failureCount
\* the step was the enable or the switch command on `email`
CommandOn(email) == last'.op \in {"enable", "switch"} /\ last'.email = email

\* C23 as claimed: within a failure streak failureCount does not decrease
\* unless the step that lowered it was a reported success or the enable or
\* switch command.
FailureCountLoweredOnlyBySuccessOrCommand ==
    [][\A e \in Staying : Lowered(e) => (SuccessOn(e) \/ CommandOn(e))]_vars

\* C23 amended: failureCount of an account is lowered only by a reported
\* success, by the enable or switch command, by a selection that finds the
\* account's rate limit expired and clears it (in getNextAccount itself, in a
\* handler or in the switch command), by a successful token refresh, by a 403
\* (which sets it to the threshold) and by a repeated login of the email, and
\* each of these but the 403 leaves it at 0; reportFailure, the 429, 401 and
\* 5xx handlers on the account and the disable command never lower it.
FailureCountLoweredOnlyByReset ==
    [][\A e \in Staying :
          Lowered(e) =>
             \/ SuccessOn(e) /\ StoredAfter(e).failureCount = 0
             \/ CommandOn(e) /\ StoredAfter(e).failureCount = 0
             \/ /\ Expired(Stored(e), now)
                /\ last'.op \in {"getNextAccount", "handleResponse", "switchNext"}
                /\ Fresh(StoredAfter(e))
             \/ /\ SweepStep /\ e \in Swept /\ e \notin last'.failing
                /\ InWindow(Stored(e), now')
                /\ StoredAfter(e).lastRefreshed = now'
                /\ StoredAfter(e).failureCount = 0
             \/ /\ last'.op = "handleResponse" /\ Branch(last'.status) = 403
                /\ last'.email = e
                /\ StoredAfter(e).failureCount = CIRCUIT_BREAKER_THRESHOLD
             \/ /\ last'.op \in {"addAccount", "login"}
                /\ Fresh(StoredAfter(e))
                /\ StoredAfter(e).requestCount = 0]_vars

\* a selection has cleared the expired rate limit of an account on which a
\* failure had been reported
SelectionClearedFailedAccount ==
    /\ last.op = "getNextAccount"
    /\ last.cleared >= 1
    /\ HasAccount(accounts, AdminEmail)
    /\ Stored(AdminEmail).failureCount = 0
    /\ Stored(AdminEmail).requestCount = 0
    /\ Stored(AdminEmail).lastUsed # Undefined

\* the accounts the manager holds: the Map once it is loaded, the file before
Held == IF loaded THEN accounts ELSE file
HeldAfter == IF loaded' THEN accounts' ELSE file'

\* C29: a reportFailure or reportSuccess call changes only the record of its
\* own account: no step of a call on one email changes the record the manager
\* holds for another email, however the calls interleave.
ReportChangesOnlyOwnAccount ==
    [][\A p \in Procs :
          procs'[p] # procs[p] =>
             \A e \in Emails \ {procs[p].email} :
                /\ HasAccount(HeldAfter, e) = HasAccount(Held, e)
                /\ HasAccount(Held, e) => GetAccount(HeldAfter, e) = GetAccount(Held, e)]_vars

\* the accounts the next getNextAccount selects from
Candidates == EmailsOfSet(Available(ClearExpiredRateLimits(accounts, now)))
CandidatesAfter == EmailsOfSet(Available(ClearExpiredRateLimits(accounts', now')))

\* C40: when the switch command without an email finds no other available
\* account it re-enables the current account and leaves it as it was: the
\* account is a candidate of the next selection, its failureCount is what it
\* was before the command and it has no rateLimitedUntil.
SwitchWithoutOtherRestoresCurrent ==
    [][(last'.op = "switchNext" /\ last'.account = Null) =>
          \A e \in Candidates :
             /\ e \in CandidatesAfter
             /\ StoredAfter(e).failureCount = Stored(e).failureCount
             /\ StoredAfter(e).rateLimitedUntil = Undefined]_vars

\* C35: in every state reached after an operation completes, an account
\* with failureCount >= CIRCUIT_BREAKER_THRESHOLD is rate-limited.
OpenBreakerIsRateLimited ==
    \A e \in Present :
        Stored(e).failureCount >= CIRCUIT_BREAKER_THRESHOLD => Stored(e).isRateLimited

\* C32: after the command `switch <email>` on an existing account the next
\* getNextAccount returns that account.
SwitchedAccountIsSelectedNext ==
    [][(last.op = "switch" /\ last'.op = "getNextAccount") =>
          last'.account = last.email]_vars

\* the account is out of the rotation by the disable command: its limit ends
\* later than any cooldown a report or a handler sets
Disabled(a, t) == a.isRateLimited /\ a.rateLimitedUntil > t + LONG_COOLDOWN_MS
\* the step completed an outcome report for `email`
ReportOn(email) ==
    /\ last'.email = email
    /\ last'.op \in {"reportSuccess", "reportFailure", "handleResponse"}

\* C31: an account disabled by the disable command is not returned by a
\* selection before its 24 hours have elapsed or an enable or switch command
\* names it: no outcome report for the account (reportSuccess, reportFailure,
\* a status handler) makes it a candidate earlier.
DisabledAccountStaysOutAfterReport ==
    [][\A e \in Staying :
          (Disabled(Stored(e), now) /\ ReportOn(e)) =>
              (e \notin CandidatesAfter /\ Disabled(StoredAfter(e), now'))]_vars

\* C36: no account is disabled indefinitely: after every step an account
\* with isRateLimited has rateLimitedUntil set, and a getNextAccount that
\* finds accounts whose rateLimitedUntil has passed makes each of them
\* available again and returns an account.
NoIndefiniteDisablement ==
    [][/\ \A i \in 1..Len(accounts') :
             accounts'[i].isRateLimited => Truthy(accounts'[i].rateLimitedUntil)
       /\ (now' = now /\ last'.op = "getNextAccount") =>
             \A e \in Present :
                (Stored(e).isRateLimited /\ Stored(e).rateLimitedUntil <= now) =>
                    (~StoredAfter(e).isRateLimited /\ last'.account # Null)]_vars

\* every account of the store was rate-limited, time has passed their limits
\* and the selection has returned one of them
SelectionRecoveredFromAllLimited ==
    /\ last.op = "getNextAccount"
    /\ Len(accounts) >= 2
    /\ last.cleared = Len(accounts)
    /\ last.account # Null

\* C34: whenever handleResponse answers switch for a status reported against
\* currentEmail, the account it hands back is not currentEmail, also when
\* other reports on the account run while the handler is in flight.
SwitchHandsBackAnotherAccount ==
    (last.op = "handleResponse" /\ last.action = "switch") => last.account # last.email

\* C37: the retry loop of a call ends: a caller that follows the answers of
\* handleResponse on an account that keeps failing with 401 or 5xx, refreshing
\* the token between 401 retries, is answered switch or fail by the third
\* consecutive failing outcome at the latest.
RetryLoopEndsByThirdFailure ==
    (last.op = "handleResponse" /\ last.outcomes >= CIRCUIT_BREAKER_THRESHOLD) =>
        last.action \in {"switch", "fail"}

\* C38 as stated: under round-robin an account that stays available is
\* returned within as many selections as the store has accounts, whatever
\* other accounts become rate-limited or are cleared in between.
RoundRobinNeverPassesOverForLong ==
    strategy = "round-robin" =>
        \A e \in Present :
            ~Stored(e).isRateLimited => waited[e] < Len(accounts)

\* C38: under round-robin, once N selections have been made on an unchanged
\* list of N candidates, every candidate is among the last N accounts returned.
RoundRobinReturnsEachWhileCandidatesStay ==
    strategy = "round-robin" =>
        LET n == Len(Available(accounts))
        IN  Len(picks) >= n =>
               \A e \in EmailsOfSet(Available(accounts)) :
                  \E i \in (Len(picks) - n + 1)..Len(picks) : picks[i] = e

\* an account is disabled, and the two accounts left have both been returned
\* by the selections made since
RemainingCandidatesBothReturned ==
    /\ Len(accounts) = 3
    /\ Len(Available(accounts)) = 2
    /\ Len(picks) >= 2
    /\ last.op = "getNextAccount"

\* C33: at most one periodic refresh timer is ever created per plugin
\* instance, for any number and any interleaving of logins.
AtMostOneRefreshTimer == timers <= 1

\* C39: overlapping store operations on a manager that has not loaded yet
\* lose no account: once the addAccount calls have returned, the Map and the
\* file hold every account that was added.
AddedAccountsAreKept ==
    (\A p \in Procs : procs[p].pc = "idle") =>
        \A e \in Emails :
            completed[e].success > 0 =>
                HasAccount(accounts, e) /\ e \in EmailsOfSet(file)

====
